---------------------------- MODULE Spec2Model ----------------------------
(***************************************************************************)
(* A model of the volleyball community backend: the payment CRUD           *)
(* endpoints, the budget and forecast reads, the budget analytics job and  *)
(* the poll-answer handler, over the relational tables they share.         *)
(*                                                                         *)
(* Time is counted in whole hours since an epoch that falls on a Monday    *)
(* at 00:00 UTC.  Money is counted in hundredths (the scale of the         *)
(* Numeric(8,2) and Numeric(10,2) columns); a request's float amount is    *)
(* counted in thousandths, so that the conversion to the column is a       *)
(* rounding and not the identity.                                          *)
(***************************************************************************)
EXTENDS Integers, Sequences, FiniteSets, TLC

VARIABLES
    now,             \* datetime.utcnow(), in hours
    game_schedule,   \* table game_schedule: id -> row
    players,         \* table players: id -> row
    polls,           \* table polls: set of rows
    poll_votes,      \* table poll_votes: set of rows
    event_payments,  \* table event_payments: set of rows
    budget_cache,    \* table budget_cache: set of rows
    forecast_cache,  \* table forecast_cache: set of rows
    next_id,         \* the serial primary-key sequences, one per table
    req,             \* per worker: the request in flight between its reads and its commit
    last             \* the last completed request: its input, its pre-state and its response

vars == <<now, game_schedule, players, polls, poll_votes, event_payments,
          budget_cache, forecast_cache, next_id, req, last>>

-----------------------------------------------------------------------------
(* Bounds of the model *)

\* games in the schedule of the caching, payment and vote specifications
NGames == 2
\* games in the schedule of the forecast-computation specification
NGamesBig == 6
\* the clock may advance this many days past T0
MaxDays == 2
\* cap of every serial primary-key sequence
MaxId == 2
\* the most option ids one poll answer carries
MaxOptions == 2

-----------------------------------------------------------------------------
(* Program constants *)

CacheTTLHours == 24
HistoryWindowDays == 90
JobHorizonDays == 7
DefaultMaxPlayers == 16
HighConfidenceGames == 5
MediumConfidenceGames == 2
\* the largest value of a Numeric(8, 2) column, in hundredths
NumericMax == 99999999

-----------------------------------------------------------------------------
(* Time *)

Days(n) == 24 * n

\* the clock's first value: a Sunday 00:00 whose 90-day cutoff is a Monday 00:00
T0 == Days(97)

\* datetime.weekday(): Monday = 0 .. Sunday = 6
Weekday(t) == (t \div 24) % 7

\* PostgreSQL extract(dow from ts): Sunday = 0 .. Saturday = 6
PgDow(t) == ((t \div 24) + 1) % 7

\* midnight of t's day: utcnow().replace(hour=0, minute=0, second=0, microsecond=0)
StartOfDay(t) == t - (t % 24)

-----------------------------------------------------------------------------
(* Arithmetic helpers *)

\* Python 3 round(n / d) for n >= 0, d > 0: round half to even
PyRound(n, d) ==
    LET q == n \div d
        r == n % d
    IN  IF 2 * r < d THEN q
        ELSE IF 2 * r > d THEN q + 1
        ELSE IF q % 2 = 0 THEN q ELSE q + 1

\* n / d stored in a Numeric(., 2) column, in hundredths: PostgreSQL rounds
\* numeric half away from zero (n >= 0, d > 0)
NumericRound(n, d) == (2 * n + d) \div (2 * d)

\* equality of the quotients a.num / a.den and b.num / b.den
SameQuotient(a, b) == a.num * b.den = b.num * a.den

RECURSIVE SumAmounts(_)
SumAmounts(rows) ==
    IF rows = {} THEN 0
    ELSE LET r == CHOOSE x \in rows : TRUE
         IN  r.amount + SumAmounts(rows \ {r})

RECURSIVE SumOf(_, _)
SumOf(f, S) ==
    IF S = {} THEN 0
    ELSE LET x == CHOOSE y \in S : TRUE
         IN  f[x] + SumOf(f, S \ {x})

-----------------------------------------------------------------------------
(* Tables *)

GameIds == DOMAIN game_schedule
PlayerIds == DOMAIN players

Locations == {"beach", "hall"}

ConfirmedPayments_mutant(g) ==
    {p \in event_payments : p.game_id = g}

\* confirmed payments of game g: the rows the outer join keeps
ConfirmedPayments(g) ==
    {p \in event_payments : p.game_id = g /\ p.status = "confirmed"}


-----------------------------------------------------------------------------
(* The forecast computation *)

\* Python values that a response field may receive
Dict(count, weekday, location) ==
    [kind |-> "dict", historical_games_count |-> count,
     weekday |-> weekday, location |-> location]

\* the historical query of get_game_forecast at time t: scheduled games in the
\* last 90 days whose extract(dow) equals the target's weekday() and whose
\* location is the target's
historical_games(game_weekday, location, t) ==
    {h \in GameIds :
        /\ game_schedule[h].game_date < t
        /\ game_schedule[h].game_date > t - Days(HistoryWindowDays)
        /\ PgDow(game_schedule[h].game_date) = game_weekday
        /\ game_schedule[h].location = location}

\* func.count(EventPayment.id) of the group of game h
payment_count(h) == Cardinality(ConfirmedPayments(h))

\* float(g.total_revenue or 0) of the group of game h, in hundredths
total_revenue(h) == SumAmounts(ConfirmedPayments(h))

confidence_mutant(n) ==
    IF n > HighConfidenceGames THEN "high"
    ELSE IF n >= MediumConfidenceGames THEN "medium"
    ELSE "low"

\* the label get_game_forecast gives a non-empty sample of n games
confidence(n) ==
    IF n >= HighConfidenceGames THEN "high"
    ELSE IF n >= MediumConfidenceGames THEN "medium"
    ELSE "low"

\* get_game_forecast, from "Otherwise, compute forecast" to the cache write:
\* the forecast of game g computed at time t.  forecasted_income is the float
\* num / den, in hundredths.
forecast_compute(g, t) ==
    LET game == game_schedule[g]
        game_weekday == Weekday(game.game_date)
        hist == historical_games(game_weekday, game.location, t)
        n == Cardinality(hist)
        counts == [h \in hist |-> payment_count(h)]
        revenues == [h \in hist |-> total_revenue(h)]
        default_players ==
            IF game.max_players # 0 THEN game.max_players ELSE DefaultMaxPlayers
    IN  IF hist # {}
        THEN [forecasted_players |-> PyRound(SumOf(counts, hist), n),
              forecasted_income |-> [num |-> SumOf(revenues, hist), den |-> n],
              confidence_level |-> confidence(n),
              method |-> "historical_average",
              metadata |-> Dict(n, game_weekday, game.location)]
        ELSE [forecasted_players |-> default_players,
              forecasted_income |->
                  [num |-> game.price_per_player * default_players, den |-> 1],
              confidence_level |-> "low",
              method |-> "historical_average",
              metadata |-> Dict(n, game_weekday, game.location)]

\* the historical query of compute_forecast_for_game (the job's copy)
job_historical_games(game_weekday, location, t) ==
    {h \in GameIds :
        /\ game_schedule[h].game_date < t
        /\ game_schedule[h].game_date > t - Days(HistoryWindowDays)
        /\ PgDow(game_schedule[h].game_date) = game_weekday
        /\ game_schedule[h].location = location}

\* the label compute_forecast_for_game gives a non-empty sample of n games
job_confidence(n) ==
    IF n >= HighConfidenceGames THEN "high"
    ELSE IF n >= MediumConfidenceGames THEN "medium"
    ELSE "low"

\* compute_forecast_for_game(db, game) at time t
compute_forecast_for_game(g, t) ==
    LET game == game_schedule[g]
        game_weekday == Weekday(game.game_date)
        hist == job_historical_games(game_weekday, game.location, t)
        n == Cardinality(hist)
        counts == [h \in hist |-> payment_count(h)]
        revenues == [h \in hist |-> total_revenue(h)]
        default_players ==
            IF game.max_players # 0 THEN game.max_players ELSE DefaultMaxPlayers
    IN  IF hist # {}
        THEN [forecasted_players |-> PyRound(SumOf(counts, hist), n),
              forecasted_income |-> [num |-> SumOf(revenues, hist), den |-> n],
              confidence_level |-> job_confidence(n),
              method |-> "historical_average",
              metadata |-> Dict(n, game_weekday, game.location)]
        ELSE [forecasted_players |-> default_players,
              forecasted_income |->
                  [num |-> game.price_per_player * default_players, den |-> 1],
              confidence_level |-> "low",
              method |-> "historical_average",
              metadata |-> Dict(n, game_weekday, game.location)]

-----------------------------------------------------------------------------
(* Responses and the request bookkeeping *)

\* the API and bot workers, each serving one request at a time
Workers == {1, 2}
Idle == [pc |-> "idle"]

Response(code, detail) == [status |-> code, detail |-> detail]

\* the record of a completed request: what it was, the rows it named and
\* the response it gave
Done(op, input, response) == [op |-> op, input |-> input, response |-> response]

\* result.scalar_one_or_none() over the rows a query selects
ScalarOneOrNone(rows) ==
    IF rows = {} THEN [found |-> "none"]
    ELSE IF Cardinality(rows) = 1
         THEN [found |-> "one", row |-> CHOOSE r \in rows : TRUE]
         ELSE [found |-> "many"]

-----------------------------------------------------------------------------
(* The budget computation *)

\* the game polls of game g
GamePolls(g) == {q \in polls : q.game_id = g /\ q.poll_type = "game"}

\* PollVote outer-joined to Player on telegram_user_id, for the "I'm in!"
\* votes (option 0) of poll q: pairs of a vote and the player's id, 0 for none
RegisteredVotes(q) ==
    { [vote |-> v,
       player |-> IF \E p \in PlayerIds : players[p].telegram_user_id = v.user_id
                  THEN CHOOSE p \in PlayerIds : players[p].telegram_user_id = v.user_id
                  ELSE 0] :
        v \in {x \in poll_votes : x.poll_id = q.poll_id /\ x.option_id = 0} }

\* get_game_budget(game_id): the response, computed from the tables alone
get_game_budget(g) ==
    IF g \notin GameIds THEN Response(404, "Game not found")
    ELSE
    LET game == game_schedule[g]
        payments == ConfirmedPayments(g)
        poll == ScalarOneOrNone(GamePolls(g))
    IN  IF poll.found = "many" THEN Response(500, "MultipleResultsFound")
        ELSE
        LET registered == IF poll.found = "one" THEN RegisteredVotes(poll.row) ELSE {}
            paid_player_ids == {p.player_id : p \in payments}
            paid == { [player_id |-> p.player_id, paid |-> TRUE, payment_id |-> p.id] :
                        p \in payments }
            unpaid == { [player_id |-> r.player, paid |-> FALSE, payment_id |-> 0] :
                        r \in {x \in registered :
                                 x.player # 0 /\ x.player \notin paid_player_ids} }
            price == game.price_per_player
        IN  [status |-> 200,
             game_id |-> g,
             price_per_player |-> price,
             max_players |-> game.max_players,
             expected_income |->
                 IF game.max_players # 0 THEN price * game.max_players
                 ELSE price * Cardinality(registered),
             actual_income |-> SumAmounts(payments),
             number_of_payers |-> Cardinality(payments),
             registered_players |-> Cardinality(registered),
             paid_players |-> paid,
             unpaid_players |-> unpaid]

\* compute_budget_for_game(db, game): the figures the job caches
compute_budget_for_game(g) ==
    LET game == game_schedule[g]
        payments == ConfirmedPayments(g)
        poll == ScalarOneOrNone(GamePolls(g))
        registered == IF poll.found = "one" THEN RegisteredVotes(poll.row) ELSE {}
        registered_count == Cardinality(registered)
        paid_player_ids == {p.player_id : p \in payments}
        price == game.price_per_player
    IN  [failed |-> poll.found = "many",
         expected_income |->
             IF game.max_players # 0 THEN price * game.max_players
             ELSE price * registered_count,
         actual_income |-> SumAmounts(payments),
         number_of_payers |-> Cardinality(payments),
         expected_players |->
             IF game.max_players # 0 THEN game.max_players ELSE registered_count,
         registered_players |-> registered_count,
         paid_players_list |->
             {r.player : r \in {x \in registered :
                                  x.player # 0 /\ x.player \in paid_player_ids}},
         unpaid_players_list |->
             {r.player : r \in {x \in registered :
                                  x.player # 0 /\ x.player \notin paid_player_ids}}]

\* GET /games/{game_id}/budget: the whole handler; it reads and writes no cache
BudgetRead(g) ==
    /\ last' = Done("get_game_budget", [game_id |-> g], get_game_budget(g))
    /\ UNCHANGED <<now, game_schedule, players, polls, poll_votes, event_payments,
                   budget_cache, forecast_cache, next_id, req>>

-----------------------------------------------------------------------------
(* The forecast read: GET /games/{game_id}/forecast *)

\* cached_forecast.metadata: ForecastCache maps no column of that name (the
\* JSON column is forecast_metadata), so the attribute of a loaded row is the
\* declarative Base's MetaData registry, an object that is not a dict
orm_metadata(row) == [kind |-> "MetaData"]

\* ForecastResponse(...): pydantic accepts historical_data only if it is a dict
ForecastResponse(g, players_, income, confidence_, method, historical_data) ==
    IF historical_data.kind = "dict"
    THEN [status |-> 200, game_id |-> g, forecasted_players |-> players_,
          forecasted_income |-> income, confidence_level |-> confidence_,
          method |-> method, historical_data |-> historical_data]
    ELSE Response(500, "ValidationError")

\* the cache is recent: utcnow() - computed_at < timedelta(hours=24)
is_recent(row, t) == (t - row.computed_at) < CacheTTLHours

\* get_game_forecast up to its commit, run at time t: either a response (no
\* game, or a recent cached row) or the write it will commit
forecast_read(g, t) ==
    IF g \notin GameIds
    THEN [pc |-> "respond", response |-> Response(404, "Game not found")]
    ELSE
    LET cached == ScalarOneOrNone({r \in forecast_cache : r.game_id = g})
    IN  IF cached.found = "many"
        THEN [pc |-> "respond", response |-> Response(500, "MultipleResultsFound")]
        ELSE IF cached.found = "one" /\ is_recent(cached.row, t)
        THEN [pc |-> "respond",
              response |->
                  ForecastResponse(g, cached.row.forecasted_players,
                                   [num |-> cached.row.forecasted_income, den |-> 1],
                                   cached.row.confidence_level, cached.row.method,
                                   orm_metadata(cached.row))]
        ELSE [pc |-> "commit", op |-> "get_game_forecast", game_id |-> g,
              started |-> t,
              row_id |-> IF cached.found = "one" THEN cached.row.id ELSE 0,
              forecast |-> forecast_compute(g, t)]

forecast_unique_ok_mutant(g) == TRUE

\* the unique index on forecast_cache.game_id admits a new row for game g
forecast_unique_ok(g) == \A r \in forecast_cache : r.game_id # g

\* the row get_game_forecast leaves for the write w, with primary key id and
\* computed_at at: the income passes through Decimal(str(.)) into Numeric(10,2)
ForecastRow(id, at, w) ==
    [id |-> id, game_id |-> w.game_id,
     forecasted_players |-> w.forecast.forecasted_players,
     forecasted_income |->
         NumericRound(w.forecast.forecasted_income.num, w.forecast.forecasted_income.den),
     confidence_level |-> w.forecast.confidence_level,
     method |-> "historical_average",
     forecast_metadata |-> "NULL",
     computed_at |-> at]

\* get_game_forecast from "Cache the forecast" on, for the write w: an UPDATE
\* of the row read (computed_at is the utcnow() of the handler) or an INSERT
\* (computed_at is the column default at the flush), then the commit
ForecastWrite(w) ==
    LET ok == ForecastResponse(w.game_id, w.forecast.forecasted_players,
                               w.forecast.forecasted_income,
                               w.forecast.confidence_level, "historical_average",
                               w.forecast.metadata)
        input == [game_id |-> w.game_id]
    IN  IF w.row_id # 0
        THEN /\ forecast_cache' =
                  {IF r.id = w.row_id THEN ForecastRow(r.id, w.started, w) ELSE r :
                     r \in forecast_cache}
             /\ next_id' = next_id
             /\ last' = Done("get_game_forecast", input, ok)
        ELSE /\ next_id.forecast_cache <= MaxId
             /\ next_id' = [next_id EXCEPT !.forecast_cache = @ + 1]
             /\ IF forecast_unique_ok(w.game_id)
                THEN /\ forecast_cache' =
                          forecast_cache \cup {ForecastRow(next_id.forecast_cache, now, w)}
                     /\ last' = Done("get_game_forecast", input, ok)
                ELSE /\ forecast_cache' = forecast_cache
                     /\ last' = Done("get_game_forecast", input,
                                     Response(500, "IntegrityError"))

\* a worker starts a forecast read: it answers at once, or holds its write
ForecastBegin(w, g) ==
    /\ req[w] = Idle
    /\ LET r == forecast_read(g, now)
       IN  IF r.pc = "respond"
           THEN /\ last' = Done("get_game_forecast", [game_id |-> g], r.response)
                /\ req' = req
           ELSE /\ req' = [req EXCEPT ![w] = r]
                /\ last' = last
    /\ UNCHANGED <<now, game_schedule, players, polls, poll_votes, event_payments,
                   budget_cache, forecast_cache, next_id>>

\* the worker's write reaches the database
ForecastCommit(w) ==
    /\ req[w].pc = "commit"
    /\ req[w].op = "get_game_forecast"
    /\ ForecastWrite(req[w])
    /\ req' = [req EXCEPT ![w] = Idle]
    /\ UNCHANGED <<now, game_schedule, players, polls, poll_votes, event_payments,
                   budget_cache>>

-----------------------------------------------------------------------------
(* The budget analytics job *)

\* the games of S in the order of .order_by(GameSchedule.game_date); games of
\* one date are taken by id
RECURSIVE SortedGames(_)
SortedGames(S) ==
    IF S = {} THEN << >>
    ELSE LET first == CHOOSE g \in S : \A h \in S :
                          \/ game_schedule[g].game_date < game_schedule[h].game_date
                          \/ /\ game_schedule[g].game_date = game_schedule[h].game_date
                             /\ g <= h
         IN  <<first>> \o SortedGames(S \ {first})

\* the games the job processes at time t: game_date in [today, today + 7 days]
upcoming_games(t) ==
    {g \in GameIds : /\ game_schedule[g].game_date >= t
                     /\ game_schedule[g].game_date <= t + Days(JobHorizonDays)}

\* one pass of the job's loop for game g at time t: the figures and the cache
\* rows it selected (0 for none)
job_item(g, t) ==
    LET b == ScalarOneOrNone({r \in budget_cache : r.game_id = g})
        f == ScalarOneOrNone({r \in forecast_cache : r.game_id = g})
        budget == compute_budget_for_game(g)
    IN  [game_id |-> g,
         failed |-> budget.failed \/ b.found = "many" \/ f.found = "many",
         budget |-> budget,
         budget_row_id |-> IF b.found = "one" THEN b.row.id ELSE 0,
         forecast |-> compute_forecast_for_game(g, t),
         forecast_row_id |-> IF f.found = "one" THEN f.row.id ELSE 0]

\* run_budget_analytics_job up to its commit, run at time t
job_read(t) ==
    LET games == SortedGames(upcoming_games(t))
        items == [i \in 1..Len(games) |-> job_item(games[i], t)]
    IN  IF games = << >>
        THEN [pc |-> "respond", response |-> [status |-> "success", games_processed |-> 0]]
        ELSE IF \E i \in 1..Len(items) : items[i].failed
        THEN [pc |-> "respond", response |-> [status |-> "failed", games_processed |-> 0]]
        ELSE [pc |-> "commit", op |-> "run_budget_analytics_job", started |-> t,
              items |-> items]

BudgetRow(id, at, it) ==
    [id |-> id, game_id |-> it.game_id,
     expected_income |-> it.budget.expected_income,
     actual_income |-> it.budget.actual_income,
     number_of_payers |-> it.budget.number_of_payers,
     expected_players |-> it.budget.expected_players,
     registered_players |-> it.budget.registered_players,
     paid_players_list |-> it.budget.paid_players_list,
     unpaid_players_list |-> it.budget.unpaid_players_list,
     computed_at |-> at]

\* the unique index on budget_cache.game_id admits a new row for game g in rows
budget_unique_ok(rows, g) == \A r \in rows : r.game_id # g

\* the job's copy of the unique index on forecast_cache.game_id
job_forecast_unique_ok(rows, g) == \A r \in rows : r.game_id # g

\* the job's flush of the budget row of item it into the tables st
job_budget_write(st, it, started, at) ==
    IF it.budget_row_id # 0
    THEN [st EXCEPT !.budget_cache =
              {IF r.id = it.budget_row_id THEN BudgetRow(r.id, started, it) ELSE r :
                 r \in st.budget_cache}]
    ELSE IF budget_unique_ok(st.budget_cache, it.game_id)
    THEN [st EXCEPT !.budget_cache = @ \cup {BudgetRow(st.next_id.budget_cache, at, it)},
                    !.next_id.budget_cache = @ + 1]
    ELSE [st EXCEPT !.ok = FALSE, !.next_id.budget_cache = @ + 1]

\* the job's flush of the forecast row of item it into the tables st
job_forecast_write(st, it, started, at) ==
    LET w == [game_id |-> it.game_id, forecast |-> it.forecast]
    IN  IF it.forecast_row_id # 0
        THEN [st EXCEPT !.forecast_cache =
                  {IF r.id = it.forecast_row_id THEN ForecastRow(r.id, started, w) ELSE r :
                     r \in st.forecast_cache}]
        ELSE IF job_forecast_unique_ok(st.forecast_cache, it.game_id)
        THEN [st EXCEPT !.forecast_cache =
                  @ \cup {ForecastRow(st.next_id.forecast_cache, at, w)},
                        !.next_id.forecast_cache = @ + 1]
        ELSE [st EXCEPT !.ok = FALSE, !.next_id.forecast_cache = @ + 1]

\* the job's writes in the order of its loop; the first rejected INSERT ends it
RECURSIVE job_flush(_, _, _, _, _)
job_flush(st, items, i, started, at) ==
    IF i > Len(items) \/ ~st.ok THEN st
    ELSE LET b == job_budget_write(st, items[i], started, at)
         IN  IF ~b.ok THEN b
             ELSE job_flush(job_forecast_write(b, items[i], started, at),
                            items, i + 1, started, at)

\* the job's single commit: all its rows, or (after a rejected INSERT) none
JobWrite(j) ==
    LET st == job_flush([ok |-> TRUE, budget_cache |-> budget_cache,
                         forecast_cache |-> forecast_cache, next_id |-> next_id],
                        j.items, 1, j.started, now)
    IN  /\ st.next_id.budget_cache <= MaxId + 1
        /\ st.next_id.forecast_cache <= MaxId + 1
        /\ next_id' = st.next_id
        /\ budget_cache' = IF st.ok THEN st.budget_cache ELSE budget_cache
        /\ forecast_cache' = IF st.ok THEN st.forecast_cache ELSE forecast_cache
        /\ last' = Done("run_budget_analytics_job", [games |-> Len(j.items)],
                        IF st.ok
                        THEN [status |-> "success", games_processed |-> Len(j.items)]
                        ELSE [status |-> "failed", games_processed |-> 0])

JobBegin(w) ==
    /\ req[w] = Idle
    /\ LET r == job_read(now)
       IN  IF r.pc = "respond"
           THEN /\ last' = Done("run_budget_analytics_job", [games |-> 0], r.response)
                /\ req' = req
           ELSE /\ req' = [req EXCEPT ![w] = r]
                /\ last' = last
    /\ UNCHANGED <<now, game_schedule, players, polls, poll_votes, event_payments,
                   budget_cache, forecast_cache, next_id>>

JobCommit(w) ==
    /\ req[w].pc = "commit"
    /\ req[w].op = "run_budget_analytics_job"
    /\ JobWrite(req[w])
    /\ req' = [req EXCEPT ![w] = Idle]
    /\ UNCHANGED <<now, game_schedule, players, polls, poll_votes, event_payments>>

\* GET /games/{game_id}/forecast served without interleaving
ForecastRequest(g) ==
    /\ LET r == forecast_read(g, now)
       IN  IF r.pc = "respond"
           THEN /\ last' = Done("get_game_forecast", [game_id |-> g], r.response)
                /\ UNCHANGED <<forecast_cache, next_id>>
           ELSE ForecastWrite(r)
    /\ UNCHANGED <<now, game_schedule, players, polls, poll_votes, event_payments,
                   budget_cache, req>>

\* one run of the job without interleaving
JobRun ==
    /\ LET r == job_read(now)
       IN  IF r.pc = "respond"
           THEN /\ last' = Done("run_budget_analytics_job", [games |-> 0], r.response)
                /\ UNCHANGED <<budget_cache, forecast_cache, next_id>>
           ELSE JobWrite(r)
    /\ UNCHANGED <<now, game_schedule, players, polls, poll_votes, event_payments, req>>

\* the clock advances by d hours, up to MaxDays past T0
Tick(d) ==
    /\ now + d <= T0 + Days(MaxDays)
    /\ now' = now + d
    /\ UNCHANGED <<game_schedule, players, polls, poll_votes, event_payments,
                   budget_cache, forecast_cache, next_id, req, last>>

-----------------------------------------------------------------------------
(* The payment endpoints and the /mark_paid and /mark_unpaid commands *)

PaymentStatuses == {"pending", "confirmed", "refunded"}

\* a Decimal given in thousandths, as the Numeric(8,2) column stores it, in
\* hundredths: rounded half away from zero
NumericStore(a) == IF a >= 0 THEN NumericRound(a, 10) ELSE -NumericRound(-a, 10)

\* the rows of event_payments of game g and player p
PaymentsOf(g, p) == {r \in event_payments : r.game_id = g /\ r.player_id = p}

\* the CheckConstraints of event_payments and the precision of its amount
payment_check_ok(row) ==
    /\ row.status \in PaymentStatuses
    /\ row.amount >= 0
    /\ row.amount <= NumericMax

payment_unique_ok_mutant(g, p) == TRUE

\* the unique index idx_event_payments_unique admits a new row for (g, p)
payment_unique_ok(g, p) == PaymentsOf(g, p) = {}

\* PaymentResponse(...) built from a row
PaymentResponse(row) ==
    [status |-> 200, id |-> row.id, game_id |-> row.game_id,
     player_id |-> row.player_id, amount |-> row.amount, currency |-> row.currency,
     paid_at |-> row.paid_at, method |-> row.method, payment_status |-> row.status]

\* message.answer(text)
Answer(text) == [status |-> "answer", detail |-> text]

\* an exception that leaves the handler: FastAPI answers 500, the commands'
\* except branch answers with its own text and rolls back
Raised(w, exception) ==
    IF w.api THEN Response(500, exception) ELSE Answer(w.error_text)

\* create_payment up to db.add(new_payment), run at time t
create_payment_read(g, payment, t) ==
    IF g \notin GameIds
    THEN [pc |-> "respond", response |-> Response(404, "Game not found")]
    ELSE IF payment.player_id \notin PlayerIds
    THEN [pc |-> "respond", response |-> Response(404, "Player not found")]
    ELSE
    LET existing == ScalarOneOrNone(PaymentsOf(g, payment.player_id))
    IN  IF existing.found = "many"
        THEN [pc |-> "respond", response |-> Response(500, "MultipleResultsFound")]
        ELSE IF existing.found = "one"
        THEN [pc |-> "respond",
              response |-> Response(400, "Payment already exists for this player and game")]
        ELSE [pc |-> "commit", op |-> "create_payment", kind |-> "insert", api |-> TRUE,
              input |-> [game_id |-> g, player_id |-> payment.player_id],
              row |-> [game_id |-> g, player_id |-> payment.player_id,
                       amount |-> payment.amount, currency |-> payment.currency,
                       method |-> payment.method, status |-> payment.status,
                       notes |-> payment.notes, paid_at |-> t]]

\* delete_payment up to db.delete(payment)
delete_payment_read(g, p) ==
    LET payment == ScalarOneOrNone(PaymentsOf(g, p))
    IN  IF payment.found = "many"
        THEN [pc |-> "respond", response |-> Response(500, "MultipleResultsFound")]
        ELSE IF payment.found = "none"
        THEN [pc |-> "respond", response |-> Response(404, "Payment not found")]
        ELSE [pc |-> "commit", op |-> "delete_payment", kind |-> "delete", api |-> TRUE,
              input |-> [game_id |-> g, player_id |-> p],
              row_id |-> payment.row.id,
              ok |-> [status |-> 200, message |-> "Payment deleted successfully"]]

\* the columns a PaymentUpdate changes on the row loaded: the fields it gives
\* (not None) whose value differs from the loaded one
changed_columns(row, payment_update) ==
    {c \in payment_update.given :
        \/ c = "amount" /\ payment_update.amount # row.amount * 10
        \/ c = "status" /\ payment_update.status # row.status
        \/ c = "notes" /\ payment_update.notes # row.notes}

\* update_payment up to its commit
update_payment_read(g, p, payment_update) ==
    LET payment == ScalarOneOrNone(PaymentsOf(g, p))
    IN  IF payment.found = "many"
        THEN [pc |-> "respond", response |-> Response(500, "MultipleResultsFound")]
        ELSE IF payment.found = "none"
        THEN [pc |-> "respond", response |-> Response(404, "Payment not found")]
        ELSE [pc |-> "commit", op |-> "update_payment", kind |-> "update", api |-> TRUE,
              input |-> [game_id |-> g, player_id |-> p],
              row_id |-> payment.row.id,
              columns |-> changed_columns(payment.row, payment_update),
              values |-> payment_update]

\* get_today_game(db): the game whose date falls on t's day
get_today_game(t) ==
    ScalarOneOrNone({g \in GameIds :
                       /\ game_schedule[g].game_date >= StartOfDay(t)
                       /\ game_schedule[g].game_date < StartOfDay(t) + 24})

\* find_player_by_username(db, username)
find_player_by_username(username) ==
    ScalarOneOrNone({q \in PlayerIds : players[q].username = username})

\* the game a command names: the id given, or (today) today's game.  The
\* commands' arguments are taken as parsed: args.today tells that the text
\* gave no game id, args.amount is the float given, 0 when none was
command_game(args, t) ==
    IF args.today THEN get_today_game(t)
    ELSE ScalarOneOrNone({g \in GameIds : g = args.game_id})

\* cmd_mark_paid up to db.add(payment), run at time t
cmd_mark_paid_read(args, t) ==
    LET game == command_game(args, t)
        player == find_player_by_username(args.username)
        gone == [api |-> FALSE, error_text |-> "Error recording payment."]
    IN  IF game.found = "many"
        THEN [pc |-> "respond", response |-> Raised(gone, "MultipleResultsFound")]
        ELSE IF game.found = "none"
        THEN [pc |-> "respond", response |-> Answer("Game not found.")]
        ELSE IF player.found = "many"
        THEN [pc |-> "respond", response |-> Raised(gone, "MultipleResultsFound")]
        ELSE IF player.found = "none"
        THEN [pc |-> "respond", response |-> Answer("Player not found in database.")]
        ELSE
        LET existing == ScalarOneOrNone(PaymentsOf(game.row, player.row))
            amount == IF args.amount = 0
                      THEN game_schedule[game.row].price_per_player * 10
                      ELSE args.amount
        IN  IF existing.found = "many"
            THEN [pc |-> "respond", response |-> Raised(gone, "MultipleResultsFound")]
            ELSE IF existing.found = "one"
            THEN [pc |-> "respond", response |-> Answer("Payment already recorded")]
            ELSE [pc |-> "commit", op |-> "cmd_mark_paid", kind |-> "insert",
                  api |-> FALSE, error_text |-> "Error recording payment.",
                  input |-> args,
                  row |-> [game_id |-> game.row, player_id |-> player.row,
                           amount |-> amount, currency |-> "ILS", method |-> "paybox",
                           status |-> "confirmed", notes |-> "NULL", paid_at |-> t]]

\* cmd_mark_unpaid up to db.delete(payment), run at time t
cmd_mark_unpaid_read(args, t) ==
    LET game == command_game(args, t)
        player == find_player_by_username(args.username)
        gone == [api |-> FALSE, error_text |-> "Error removing payment."]
    IN  IF game.found = "many"
        THEN [pc |-> "respond", response |-> Raised(gone, "MultipleResultsFound")]
        ELSE IF game.found = "none"
        THEN [pc |-> "respond", response |-> Answer("Game not found.")]
        ELSE IF player.found = "many"
        THEN [pc |-> "respond", response |-> Raised(gone, "MultipleResultsFound")]
        ELSE IF player.found = "none"
        THEN [pc |-> "respond", response |-> Answer("Player not found.")]
        ELSE
        LET payment == ScalarOneOrNone(PaymentsOf(game.row, player.row))
        IN  IF payment.found = "many"
            THEN [pc |-> "respond", response |-> Raised(gone, "MultipleResultsFound")]
            ELSE IF payment.found = "none"
            THEN [pc |-> "respond", response |-> Answer("No payment found")]
            ELSE [pc |-> "commit", op |-> "cmd_mark_unpaid", kind |-> "delete",
                  api |-> FALSE, error_text |-> "Error removing payment.",
                  input |-> args,
                  row_id |-> payment.row.id,
                  ok |-> Answer("Payment removed")]

\* db.add(payment); commit: the INSERT takes the next id of the sequence, the
\* amount is rounded into its column, and the constraints admit the row or
\* fail the request
PaymentInsert(w) ==
    LET row == [id |-> next_id.event_payments, game_id |-> w.row.game_id,
                player_id |-> w.row.player_id, amount |-> NumericStore(w.row.amount),
                currency |-> w.row.currency, method |-> w.row.method,
                status |-> w.row.status, notes |-> w.row.notes,
                paid_at |-> w.row.paid_at]
    IN  /\ next_id.event_payments <= MaxId
        /\ next_id' = [next_id EXCEPT !.event_payments = @ + 1]
        /\ IF payment_check_ok(row) /\ payment_unique_ok(row.game_id, row.player_id)
           THEN /\ event_payments' = event_payments \cup {row}
                /\ last' = Done(w.op, w.input,
                                IF w.api THEN PaymentResponse(row)
                                ELSE Answer("Payment recorded"))
           ELSE /\ event_payments' = event_payments
                /\ last' = Done(w.op, w.input, Raised(w, "IntegrityError"))

PaymentDelete_mutant(w) ==
    /\ event_payments' =
           {r \in event_payments :
               \A d \in event_payments : d.id = w.row_id => r.player_id # d.player_id}
    /\ next_id' = next_id
    /\ last' = Done(w.op, w.input, w.ok)

\* db.delete(payment); commit: DELETE by primary key; a row already gone only
\* draws a warning
PaymentDelete(w) ==
    /\ event_payments' = {r \in event_payments : r.id # w.row_id}
    /\ next_id' = next_id
    /\ last' = Done(w.op, w.input, w.ok)

updated_row_mutant(r, columns, values) ==
    [r EXCEPT !.amount = IF "amount" \in columns THEN NumericStore(values.amount) ELSE @,
              !.status = IF "status" \in columns THEN values.status ELSE @,
              !.notes = values.notes]

\* the row after UPDATE ... SET of the changed columns
updated_row(r, columns, values) ==
    [r EXCEPT !.amount = IF "amount" \in columns THEN NumericStore(values.amount) ELSE @,
              !.status = IF "status" \in columns THEN values.status ELSE @,
              !.notes = IF "notes" \in columns THEN values.notes ELSE @]

\* update_payment's commit and refresh: UPDATE by primary key of the changed
\* columns (none changed: no UPDATE), then the row is read again
PaymentUpdate(w) ==
    LET found == {r \in event_payments : r.id = w.row_id}
        old == CHOOSE r \in found : TRUE
        new == updated_row(old, w.columns, w.values)
    IN  /\ next_id' = next_id
        /\ IF found = {}
           THEN /\ event_payments' = event_payments
                /\ last' = Done(w.op, w.input,
                                Response(500, IF w.columns = {} THEN "InvalidRequestError"
                                              ELSE "StaleDataError"))
           ELSE IF payment_check_ok(new)
           THEN /\ event_payments' = (event_payments \ {old}) \cup {new}
                /\ last' = Done(w.op, w.input, PaymentResponse(new))
           ELSE /\ event_payments' = event_payments
                /\ last' = Done(w.op, w.input, Response(500, "IntegrityError"))

\* the write a request holds reaches the database
PaymentWrite(w) ==
    CASE w.kind = "insert" -> PaymentInsert(w)
      [] w.kind = "delete" -> PaymentDelete(w)
      [] w.kind = "update" -> PaymentUpdate(w)

\* a request served without interleaving: r is what its reads came to
Serve(op, input, r) ==
    /\ IF r.pc = "respond"
       THEN /\ last' = Done(op, input, r.response)
            /\ UNCHANGED <<event_payments, next_id>>
       ELSE PaymentWrite(r)
    /\ UNCHANGED <<now, game_schedule, players, polls, poll_votes, budget_cache,
                   forecast_cache, req>>

\* worker w starts a request: it answers at once, or holds its write
Begin(w, op, input, r) ==
    /\ req[w] = Idle
    /\ IF r.pc = "respond"
       THEN /\ last' = Done(op, input, r.response)
            /\ req' = req
       ELSE /\ req' = [req EXCEPT ![w] = r]
            /\ last' = last
    /\ UNCHANGED <<now, game_schedule, players, polls, poll_votes, event_payments,
                   budget_cache, forecast_cache, next_id>>

\* worker w's write of a request op reaches the database
Commit(w, op) ==
    /\ req[w].pc = "commit"
    /\ req[w].op = op
    /\ PaymentWrite(req[w])
    /\ req' = [req EXCEPT ![w] = Idle]
    /\ UNCHANGED <<now, game_schedule, players, polls, poll_votes, budget_cache,
                   forecast_cache>>

\* POST /games/{game_id}/payments
create_payment(g, payment) ==
    Serve("create_payment", [game_id |-> g, player_id |-> payment.player_id],
          create_payment_read(g, payment, now))

\* DELETE /games/{game_id}/payments/{player_id}
delete_payment(g, p) ==
    Serve("delete_payment", [game_id |-> g, player_id |-> p], delete_payment_read(g, p))

\* PATCH /games/{game_id}/payments/{player_id}
update_payment(g, p, payment_update) ==
    Serve("update_payment", [game_id |-> g, player_id |-> p],
          update_payment_read(g, p, payment_update))

\* /mark_paid
cmd_mark_paid(args) == Serve("cmd_mark_paid", args, cmd_mark_paid_read(args, now))

\* /mark_unpaid
cmd_mark_unpaid(args) == Serve("cmd_mark_unpaid", args, cmd_mark_unpaid_read(args, now))

\* the same requests on a worker, their reads and their commit apart
CreatePaymentBegin(w, g, payment) ==
    Begin(w, "create_payment", [game_id |-> g, player_id |-> payment.player_id],
          create_payment_read(g, payment, now))

CreatePaymentCommit(w) == Commit(w, "create_payment")

DeletePaymentBegin(w, g, p) ==
    Begin(w, "delete_payment", [game_id |-> g, player_id |-> p], delete_payment_read(g, p))

DeletePaymentCommit(w) == Commit(w, "delete_payment")

UpdatePaymentBegin(w, g, p, payment_update) ==
    Begin(w, "update_payment", [game_id |-> g, player_id |-> p],
          update_payment_read(g, p, payment_update))

UpdatePaymentCommit(w) == Commit(w, "update_payment")

MarkPaidBegin(w, args) == Begin(w, "cmd_mark_paid", args, cmd_mark_paid_read(args, now))

MarkPaidCommit(w) == Commit(w, "cmd_mark_paid")

MarkUnpaidBegin(w, args) ==
    Begin(w, "cmd_mark_unpaid", args, cmd_mark_unpaid_read(args, now))

MarkUnpaidCommit(w) == Commit(w, "cmd_mark_unpaid")

-----------------------------------------------------------------------------
(* The poll-answer handler *)

\* AsyncSessionLocal's session flushes pending rows before each query
\* (SQLAlchemy's default)
autoflush == TRUE

\* INSERT of a vote into rows: the foreign key to polls.poll_id and the unique
\* index idx_poll_votes_unique (poll_id, user_id) must admit it
vote_insert_ok(rows, v) ==
    /\ \E q \in polls : q.poll_id = v.poll_id
    /\ \A r \in rows : ~(r.poll_id = v.poll_id /\ r.user_id = v.user_id)

\* the session's flush: its pending votes are inserted in the order they
\* were added; the first rejected INSERT fails the transaction
RECURSIVE vote_flush(_)
vote_flush(st) ==
    IF ~st.ok \/ st.pending = << >> THEN st
    ELSE LET v == Head(st.pending)
         IN  IF vote_insert_ok(st.rows, v)
             THEN vote_flush([st EXCEPT
                      !.rows = @ \cup {[id |-> st.next, poll_id |-> v.poll_id,
                                        user_id |-> v.user_id, option_id |-> v.option_id,
                                        voted_at |-> v.voted_at]},
                      !.next = @ + 1,
                      !.pending = Tail(@)])
             ELSE [st EXCEPT !.ok = FALSE, !.next = @ + 1]

vote_update_keeps_time(r, option_id, t) == [r EXCEPT !.option_id = option_id]

\* "Update existing vote": the new option and the server's clock
vote_update(r, option_id, t) == [r EXCEPT !.option_id = option_id, !.voted_at = t]

\* the loop of on_poll_answer over poll_answer.option_ids, from its i-th
\* option id on, at time t
RECURSIVE poll_answer_loop(_, _, _, _, _, _)
poll_answer_loop(st, poll_id, user_id, option_ids, i, t) ==
    IF ~st.ok \/ i > Len(option_ids) THEN st
    ELSE
    LET s1 == IF autoflush THEN vote_flush(st) ELSE st
        vote == ScalarOneOrNone({r \in s1.rows :
                                   r.poll_id = poll_id /\ r.user_id = user_id})
    IN  IF ~s1.ok THEN s1
        ELSE IF vote.found = "many" THEN [s1 EXCEPT !.ok = FALSE]
        ELSE IF vote.found = "one"
        THEN poll_answer_loop(
                 [s1 EXCEPT !.rows = (@ \ {vote.row})
                                       \cup {vote_update(vote.row, option_ids[i], t)}],
                 poll_id, user_id, option_ids, i + 1, t)
        ELSE poll_answer_loop(
                 [s1 EXCEPT !.pending =
                      Append(@, [poll_id |-> poll_id, user_id |-> user_id,
                                 option_id |-> option_ids[i], voted_at |-> t])],
                 poll_id, user_id, option_ids, i + 1, t)

\* on_poll_answer(poll_answer): the loop, then the commit; an exception rolls
\* the transaction back
on_poll_answer(poll_id, user_id, option_ids) ==
    LET st == vote_flush(poll_answer_loop(
                  [ok |-> TRUE, rows |-> poll_votes, pending |-> << >>,
                   next |-> next_id.poll_votes],
                  poll_id, user_id, option_ids, 1, now))
    IN  /\ st.next <= MaxId + 1
        /\ poll_votes' = IF st.ok THEN st.rows ELSE poll_votes
        /\ next_id' = [next_id EXCEPT !.poll_votes = st.next]
        /\ last' = Done("on_poll_answer",
                        [poll_id |-> poll_id, user_id |-> user_id,
                         option_ids |-> option_ids],
                        [status |-> IF st.ok THEN "saved" ELSE "rolled back"])
        /\ UNCHANGED <<now, game_schedule, players, polls, event_payments,
                       budget_cache, forecast_cache, req>>

-----------------------------------------------------------------------------
(* Inputs: the schedules, players and payments the specifications start from *)

\* a game's date and place: an upcoming Tuesday, last week's Tuesday, last
\* week's Monday, and the Monday that lies exactly on the 90-day cutoff of T0
GameOptions ==
    << [game_date |-> T0 - Days(6) + 19, location |-> "hall"],
       [game_date |-> T0 - Days(6) + 19, location |-> "beach"],
       [game_date |-> T0 - Days(5) + 19, location |-> "hall"],
       [game_date |-> T0 - Days(5) + 19, location |-> "beach"],
       [game_date |-> T0 + Days(2) + 19, location |-> "hall"],
       [game_date |-> T0 + Days(2) + 19, location |-> "beach"],
       [game_date |-> T0 - Days(90), location |-> "hall"] >>

\* price_per_player (hundredths) and max_players (0 stands for NULL: the code
\* only tests it for truth, where None and 0 agree)
GameDefaults ==
    { [price_per_player |-> 0, max_players |-> 0],
      [price_per_player |-> 2500, max_players |-> 4] }

\* the non-decreasing sequences of length n over 1..k: a schedule up to the
\* order of its ids
RECURSIVE NonDecreasing(_, _)
NonDecreasing(n, k) ==
    IF n = 0 THEN {<< >>}
    ELSE UNION { {Append(s, j) : s \in NonDecreasing(n - 1, j)} : j \in 1..k }

GameRow(opt, dflt) ==
    [game_date |-> opt.game_date, location |-> opt.location,
     price_per_player |-> dflt.price_per_player, max_players |-> dflt.max_players]

Schedules(n) ==
    { [g \in 1..n |-> GameRow(GameOptions[s[g]], d)] :
        s \in NonDecreasing(n, Len(GameOptions)), d \in GameDefaults }

\* table players: two players known to Telegram
PlayerTable ==
    [p \in 1..2 |-> [telegram_user_id |-> 100 + p,
                     username |-> IF p = 1 THEN "dana" ELSE "noam"]]

Payment(id, g, p, amount, status) ==
    [id |-> id, game_id |-> g, player_id |-> p, amount |-> amount,
     currency |-> "ILS", method |-> "paybox", status |-> status,
     notes |-> "NULL", paid_at |-> 0]

\* payments of the first two games and, when there are more, of the last one
FullPayments(n) ==
    {Payment(1, 1, 1, 2500, "confirmed"), Payment(2, 1, 2, 3000, "confirmed"),
     Payment(3, 2, 1, 2000, "confirmed"), Payment(4, 2, 2, 1000, "pending")}
    \cup (IF n > 2 THEN {Payment(5, n, 1, 2500, "confirmed")} ELSE {})

\* event_payments as the forecast specifications find it
PaymentScenarios(n) ==
    { {}, {Payment(1, 1, 1, 2500, "confirmed")}, FullPayments(n) }

-----------------------------------------------------------------------------
(* SpecCompute: the forecast computation applied to drawn schedules *)

InitCompute ==
    /\ now = T0
    /\ game_schedule \in Schedules(NGamesBig)
    /\ players = PlayerTable
    /\ polls = {}
    /\ poll_votes = {}
    /\ event_payments \in PaymentScenarios(NGamesBig)
    /\ budget_cache = {}
    /\ forecast_cache = {}
    /\ next_id = [t \in {"event_payments", "budget_cache", "forecast_cache", "poll_votes"} |-> 1]
    /\ req = [w \in Workers |-> Idle]
    /\ last = [op |-> "none"]

\* the endpoint's computation for game g
ComputeApi(g) ==
    /\ last' = [op |-> "compute", by |-> "get_game_forecast", game_id |-> g,
                time |-> now, result |-> forecast_compute(g, now)]
    /\ UNCHANGED <<now, game_schedule, players, polls, poll_votes, event_payments,
                   budget_cache, forecast_cache, next_id, req>>

\* the job's computation for game g
ComputeJob(g) ==
    /\ last' = [op |-> "compute", by |-> "compute_forecast_for_game", game_id |-> g,
                time |-> now, result |-> compute_forecast_for_game(g, now)]
    /\ UNCHANGED <<now, game_schedule, players, polls, poll_votes, event_payments,
                   budget_cache, forecast_cache, next_id, req>>

NextCompute ==
    \/ \E g \in GameIds : ComputeApi(g)
    \/ \E g \in GameIds : ComputeJob(g)

SpecCompute == InitCompute /\ [][NextCompute]_vars

-----------------------------------------------------------------------------
(* SpecCache: forecast reads, budget reads and the job, interleaved *)

\* the schedules of the caching specification: game 1 is the upcoming Tuesday
\* game in the hall, the others last week's Monday or Tuesday game there
CacheSchedules(n) ==
    { [g \in 1..n |-> GameRow(GameOptions[IF g = 1 THEN 5 ELSE s[g]], d)] :
        s \in [1..n -> {1, 3}],
        d \in {[price_per_player |-> 2500, max_players |-> 0]} }

\* the game poll of game 1 and its votes: player 1 and a stranger are in,
\* player 2 is out
PollScenario ==
    [polls |-> {[poll_id |-> 71, poll_type |-> "game", game_id |-> 1, created_at |-> 0]},
     poll_votes |->
        {[id |-> 1, poll_id |-> 71, user_id |-> 101, option_id |-> 0, voted_at |-> 1],
         [id |-> 2, poll_id |-> 71, user_id |-> 102, option_id |-> 2, voted_at |-> 2],
         [id |-> 3, poll_id |-> 71, user_id |-> 999, option_id |-> 0, voted_at |-> 3]}]

InitCache ==
    /\ now = T0
    /\ game_schedule \in CacheSchedules(NGames)
    /\ players = PlayerTable
    /\ polls = PollScenario.polls
    /\ poll_votes = PollScenario.poll_votes
    /\ event_payments \in PaymentScenarios(NGames) \ {{}}
    /\ budget_cache = {}
    /\ forecast_cache = {}
    /\ next_id = [t \in {"event_payments", "budget_cache", "forecast_cache", "poll_votes"} |-> 1]
    /\ req = [w \in Workers |-> Idle]
    /\ last = [op |-> "none"]

\* the interleaved specification starts from one schedule: game 1 upcoming,
\* the others last week's Monday game in the hall, which game 1's forecast samples
InitRace ==
    /\ InitCache
    /\ \A g \in GameIds \ {1} : game_schedule[g].game_date = GameOptions[1].game_date
    /\ event_payments = FullPayments(NGames)

\* requests may name a game that does not exist
GameIdInputs == GameIds \cup {0}

\* the job is started by cron, beside the API workers
JobWorkers == {2}

NextCache ==
    \/ Tick(24)
    \/ \E w \in Workers, g \in GameIds : ForecastBegin(w, g)
    \/ \E w \in Workers : ForecastCommit(w)
    \/ \E w \in JobWorkers : JobBegin(w)
    \/ \E w \in JobWorkers : JobCommit(w)

SpecCache == InitRace /\ [][NextCache]_vars

\* SpecCacheSeq: the same requests, each served before the next starts
NextCacheSeq ==
    \/ Tick(12)
    \/ \E g \in GameIdInputs : ForecastRequest(g)
    \/ \E g \in GameIdInputs : BudgetRead(g)
    \/ JobRun

SpecCacheSeq == InitCache /\ [][NextCacheSeq]_vars

-----------------------------------------------------------------------------
(* SpecVotes: poll answers, one after another, as the clock advances *)

\* the sequences of at most n distinct option ids of a three-option poll
OptionIdSeqs(n) ==
    UNION { {s \in [1..k -> 0..2] : \A i, j \in 1..k : i # j => s[i] # s[j]} : k \in 0..n }

\* the poll the game-poll job recorded, and one it did not
PollIdInputs == {71, 99}

\* Telegram users: a player and a stranger
UserIdInputs == {101, 999}

InitVotes ==
    /\ now = T0
    /\ game_schedule \in {c \in CacheSchedules(NGames) :
            \A g \in 2..NGames : c[g].game_date = GameOptions[1].game_date}
    /\ players = PlayerTable
    /\ polls = PollScenario.polls
    /\ poll_votes = {}
    /\ event_payments = {}
    /\ budget_cache = {}
    /\ forecast_cache = {}
    /\ next_id = [t \in {"event_payments", "budget_cache", "forecast_cache", "poll_votes"} |-> 1]
    /\ req = [w \in Workers |-> Idle]
    /\ last = [op |-> "none"]

NextVotes ==
    \/ Tick(24)
    \/ \E q \in PollIdInputs, u \in UserIdInputs, o \in OptionIdSeqs(MaxOptions) :
           on_poll_answer(q, u, o)

SpecVotes == InitVotes /\ [][NextVotes]_vars

-----------------------------------------------------------------------------
(* SpecPaySeq: payment requests, commands and budget reads, one after another *)
(* SpecPay: payment requests and commands of two workers, interleaved        *)

\* game 1 is played on the day of T0, the other games on the Tuesday after
PaySchedules(n) ==
    { [g \in 1..n |->
          IF g = 1
          THEN [game_date |-> T0 + 19, location |-> "hall",
                price_per_player |-> 2500, max_players |-> 0]
          ELSE GameRow(GameOptions[5], [price_per_player |-> 2500, max_players |-> 0])] }

InitPay ==
    /\ now = T0
    /\ game_schedule \in PaySchedules(NGames)
    /\ players = PlayerTable
    /\ polls = PollScenario.polls
    /\ poll_votes = PollScenario.poll_votes
    /\ event_payments \in {{}, {Payment(1, 1, 1, 2500, "confirmed")},
                          {Payment(1, 1, 1, 2500, "confirmed"),
                           Payment(2, NGames, 1, 2000, "confirmed")}}
    /\ budget_cache = {}
    /\ forecast_cache = {}
    /\ next_id = [t \in {"event_payments", "budget_cache", "forecast_cache", "poll_votes"} |->
                     IF t = "event_payments" THEN Cardinality(event_payments) + 1 ELSE 1]
    /\ req = [w \in Workers |-> Idle]
    /\ last = [op |-> "none"]

\* requests may name a player that does not exist
PlayerIdInputs == PlayerIds \cup {0}

\* payments are created for today's game, or for a game that does not exist;
\* the payments of the other games are those the specification starts from
NewPaymentGames == {0, 1}

\* a PaymentCreate body with the defaults of its optional fields
PaymentCreate(p, amount, status) ==
    [player_id |-> p, amount |-> amount, currency |-> "ILS", method |-> "paybox",
     status |-> status, notes |-> "NULL"]

\* amounts in thousandths: 25.0, 10.005 and -5.0; a status the column's
\* constraint does not list
PaymentCreateInputs ==
    { PaymentCreate(p, a.amount, a.status) :
        p \in PlayerIdInputs,
        a \in { [amount |-> 25000, status |-> "confirmed"],
                [amount |-> 10005, status |-> "pending"],
                [amount |-> -5000, status |-> "confirmed"],
                [amount |-> 25000, status |-> "bogus"] } }

\* PaymentUpdate bodies: given lists the fields that are not None
PaymentUpdateInputs ==
    { [given |-> {}, amount |-> 0, status |-> "None", notes |-> "None"],
      [given |-> {"status"}, amount |-> 0, status |-> "refunded", notes |-> "None"],
      [given |-> {"status"}, amount |-> 0, status |-> "bogus", notes |-> "None"],
      [given |-> {"amount", "notes"}, amount |-> 10005, status |-> "None", notes |-> "late"] }

\* the arguments of /mark_paid and /mark_unpaid: a game id or today's game, a
\* username, an amount (0: none given)
CommandInputs ==
    { [today |-> FALSE, game_id |-> g, username |-> u, amount |-> 0] :
        g \in NewPaymentGames, u \in {"dana", "ghost"} }
    \cup
    { [today |-> TRUE, game_id |-> 0, username |-> "noam", amount |-> a] :
        a \in {-5000, 25000} }

NextPaySeq ==
    \/ \E g \in NewPaymentGames, payment \in PaymentCreateInputs : create_payment(g, payment)
    \/ \E g \in GameIdInputs, p \in PlayerIdInputs : delete_payment(g, p)
    \/ \E g \in GameIdInputs, p \in PlayerIdInputs, u \in PaymentUpdateInputs :
           update_payment(g, p, u)
    \/ \E args \in CommandInputs : cmd_mark_paid(args)
    \/ \E args \in CommandInputs : cmd_mark_unpaid(args)
    \/ \E g \in GameIdInputs : BudgetRead(g)

SpecPaySeq == InitPay /\ [][NextPaySeq]_vars

\* the interleaved requests: all for player 1 ("dana"), so that they contend
RaceCreateInputs ==
    {c \in PaymentCreateInputs : c.player_id = 1 /\ c.amount = 10005}

RaceUpdateInputs == {u \in PaymentUpdateInputs : u.given = {"status"}}

RaceCommandInputs ==
    {a \in CommandInputs : ~a.today /\ a.username = "dana" /\ a.game_id \in GameIds}

NextPay ==
    \/ \E w \in Workers, payment \in RaceCreateInputs : CreatePaymentBegin(w, 1, payment)
    \/ \E w \in Workers : CreatePaymentCommit(w)
    \/ \E w \in Workers, g \in GameIds : DeletePaymentBegin(w, g, 1)
    \/ \E w \in Workers : DeletePaymentCommit(w)
    \/ \E w \in Workers, g \in GameIds, u \in RaceUpdateInputs :
           UpdatePaymentBegin(w, g, 1, u)
    \/ \E w \in Workers : UpdatePaymentCommit(w)
    \/ \E w \in Workers, args \in RaceCommandInputs : MarkPaidBegin(w, args)
    \/ \E w \in Workers : MarkPaidCommit(w)
    \/ \E w \in Workers, args \in RaceCommandInputs : MarkUnpaidBegin(w, args)
    \/ \E w \in Workers : MarkUnpaidCommit(w)

SpecPay == InitPay /\ [][NextPay]_vars

-----------------------------------------------------------------------------
(* Claims about the forecast computation (SpecCompute) *)

\* the sample the specification describes for target g at time t: scheduled
\* games strictly inside the 90-day window, at the target's location, on the
\* target's day of the week
SameWeekdaySample(g, t) ==
    {h \in GameIds :
        /\ game_schedule[h].game_date < t
        /\ game_schedule[h].game_date > t - Days(HistoryWindowDays)
        /\ game_schedule[h].location = game_schedule[g].location
        /\ Weekday(game_schedule[h].game_date) = Weekday(game_schedule[g].game_date)}

\* C4: whenever a historical game exists, a computed forecast is the mean over
\* exactly the games of the last 90 days that share the target's location and
\* day of the week: forecasted_income the mean of their confirmed totals,
\* forecasted_players the rounded mean of their confirmed counts.
C4_MeanOverSameWeekday ==
    last.op = "compute" =>
        LET S == SameWeekdaySample(last.game_id, last.time)
            counts == [h \in S |-> payment_count(h)]
            revenues == [h \in S |-> total_revenue(h)]
        IN  S # {} =>
              /\ SameQuotient(last.result.forecasted_income,
                              [num |-> SumOf(revenues, S), den |-> Cardinality(S)])
              /\ last.result.forecasted_players = PyRound(SumOf(counts, S), Cardinality(S))

\* C5: the confidence label of a computed forecast depends on the number n of
\* sampled games only: high for n >= 5, medium for 2 <= n <= 4, low for n <= 1.
C5_ConfidenceByCount ==
    last.op = "compute" =>
        LET n == last.result.metadata.historical_games_count
            label == last.result.confidence_level
        IN  /\ n >= 5 => label = "high"
            /\ (2 <= n /\ n <= 4) => label = "medium"
            /\ n <= 1 => label = "low"
            /\ label \in {"high", "medium", "low"}

\* a forecast over exactly five sampled games, labelled high by the endpoint
C5_Witness ==
    /\ last.op = "compute"
    /\ last.by = "get_game_forecast"
    /\ last.result.metadata.historical_games_count = 5
    /\ last.result.confidence_level = "high"

-----------------------------------------------------------------------------
(* Claims about the caches (SpecCache, SpecCacheSeq) *)

CachedRows(table, g) == {r \in table : r.game_id = g}

\* C1: a forecast read of a game whose forecast_cache row is less than 24
\* hours old returns the cached values and leaves the row unchanged; when the
\* row is missing or 24 hours old or older, the read recomputes and leaves the
\* game's row holding the computed values with computed_at the time of the read.
C1_ForecastReadThrough ==
    [][\A g \in GameIds :
         ForecastRequest(g) =>
           LET rows == CachedRows(forecast_cache, g)
               resp == last'.response
           IN  IF \E r \in rows : now - r.computed_at < CacheTTLHours
               THEN /\ forecast_cache' = forecast_cache
                    /\ resp.status = 200
                    /\ \E r \in rows :
                         /\ resp.forecasted_players = r.forecasted_players
                         /\ SameQuotient(resp.forecasted_income,
                                         [num |-> r.forecasted_income, den |-> 1])
                         /\ resp.confidence_level = r.confidence_level
               ELSE /\ resp.status = 200
                    /\ \E r \in CachedRows(forecast_cache', g) :
                         /\ r.computed_at = now
                         /\ r.forecasted_players = resp.forecasted_players
                         /\ r.forecasted_income =
                              NumericRound(resp.forecasted_income.num,
                                           resp.forecasted_income.den)
                         /\ r.confidence_level = resp.confidence_level]_vars

\* C2: a budget read of a game whose budget_cache row was computed more than
\* 24 hours ago refreshes the row: afterwards it holds the freshly computed
\* figures and a current computed_at.
C2_BudgetReadRefreshes ==
    [][\A g \in GameIds :
         (/\ BudgetRead(g)
          /\ \E r \in CachedRows(budget_cache, g) : now - r.computed_at > CacheTTLHours)
         => \E r \in CachedRows(budget_cache', g) :
              /\ r.computed_at = now
              /\ r.actual_income = last'.response.actual_income
              /\ r.number_of_payers = last'.response.number_of_payers]_vars

\* C3: after any interleaving of forecast reads and job runs, forecast_cache
\* and budget_cache each hold at most one row per game.
C3_OneCacheRowPerGame ==
    \A g \in GameIds :
        /\ Cardinality(CachedRows(forecast_cache, g)) <= 1
        /\ Cardinality(CachedRows(budget_cache, g)) <= 1

\* two writers raced for the forecast row of one game: one INSERT was rejected
\* and the game's row is there, beside the job's budget row
C3_Witness ==
    /\ last.op = "get_game_forecast"
    /\ last.response = Response(500, "IntegrityError")
    /\ CachedRows(forecast_cache, last.input.game_id) # {}
    /\ budget_cache # {}

-----------------------------------------------------------------------------
(* Claims about poll answers (SpecVotes) *)

\* the rows of poll_votes of user u for poll q
VotesOf(rows, q, u) == {r \in rows : r.poll_id = q /\ r.user_id = u}

\* C6: every vote row that on_poll_answer writes, a new row or an updated one
\* (the rows of poll_votes after the step that were not there before it),
\* carries as voted_at the server's clock at the moment the answer is handled.
C6_VotedAtIsServerClock ==
    [][\A r \in poll_votes' \ poll_votes : r.voted_at = now]_vars

\* an answer handled later than the user's first one has replaced the option
\* of the stored row, which carries the later time
C6_Witness ==
    /\ last.op = "on_poll_answer"
    /\ last.response.status = "saved"
    /\ now > T0
    /\ \E r \in VotesOf(poll_votes, last.input.poll_id, last.input.user_id) :
          /\ r.voted_at = now
          /\ r.id < next_id.poll_votes - 1

\* C7 as stated: at most one row per (poll_id, user_id), and after an answer
\* with one or more option ids the user's row for the poll holds the last
\* option id of that answer.
C7_LastOptionStored ==
    /\ \A r1, r2 \in poll_votes :
          (r1.poll_id = r2.poll_id /\ r1.user_id = r2.user_id) => r1 = r2
    /\ (last.op = "on_poll_answer" /\ Len(last.input.option_ids) >= 1) =>
          \E r \in VotesOf(poll_votes, last.input.poll_id, last.input.user_id) :
              r.option_id = last.input.option_ids[Len(last.input.option_ids)]

\* C7 for the polls that the table polls holds: at most one row per
\* (poll_id, user_id), and after an answer with one or more option ids to such
\* a poll the user's row holds the last option id of that answer; an answer to
\* a poll that polls does not hold is rolled back and stores no row.
C7_LastOptionStoredForRecordedPoll ==
    /\ \A r1, r2 \in poll_votes :
          (r1.poll_id = r2.poll_id /\ r1.user_id = r2.user_id) => r1 = r2
    /\ (/\ last.op = "on_poll_answer"
        /\ Len(last.input.option_ids) >= 1
        /\ \E q \in polls : q.poll_id = last.input.poll_id) =>
          /\ last.response.status = "saved"
          /\ \E r \in VotesOf(poll_votes, last.input.poll_id, last.input.user_id) :
                r.option_id = last.input.option_ids[Len(last.input.option_ids)]
    /\ (/\ last.op = "on_poll_answer"
        /\ Len(last.input.option_ids) >= 1
        /\ ~\E q \in polls : q.poll_id = last.input.poll_id) =>
          /\ last.response.status = "rolled back"
          /\ VotesOf(poll_votes, last.input.poll_id, last.input.user_id) = {}

-----------------------------------------------------------------------------
(* Claims about payments (SpecPay, SpecPaySeq) *)

\* C8: in every reachable state, under any interleaving of create_payment,
\* delete_payment, update_payment, /mark_paid and /mark_unpaid (requests for
\* the same pair included), event_payments holds at most one row per
\* (game_id, player_id).
C8_OnePaymentPerGameAndPlayer ==
    \A r1, r2 \in event_payments :
        (r1.game_id = r2.game_id /\ r1.player_id = r2.player_id) => r1 = r2

\* two requests found no payment for the pair; the first one's row is stored
\* and the second one's INSERT has been refused
C8_Witness ==
    /\ \/ last.op = "create_payment" /\ last.response = Response(500, "IntegrityError")
       \/ last.op = "cmd_mark_paid" /\ last.response = Answer("Error recording payment.")
    /\ PaymentsOf(1, 1) # {}

\* C9 as stated: create_payment answers 404 'Game not found' for a missing
\* game, 404 'Player not found' for a missing player, 400 'Payment already
\* exists for this player and game' for an existing payment, each leaving
\* event_payments unchanged; otherwise it adds exactly one row for that
\* (game, player), with the requested amount and status.
C9_CreatePaymentOutcomes ==
    [][\A g \in NewPaymentGames, payment \in PaymentCreateInputs :
          create_payment(g, payment) =>
              IF g \notin GameIds
              THEN /\ last'.response = Response(404, "Game not found")
                   /\ event_payments' = event_payments
              ELSE IF payment.player_id \notin PlayerIds
              THEN /\ last'.response = Response(404, "Player not found")
                   /\ event_payments' = event_payments
              ELSE IF PaymentsOf(g, payment.player_id) # {}
              THEN /\ last'.response =
                         Response(400, "Payment already exists for this player and game")
                   /\ event_payments' = event_payments
              ELSE \E row \in event_payments' \ event_payments :
                      /\ event_payments' = event_payments \cup {row}
                      /\ row.game_id = g
                      /\ row.player_id = payment.player_id
                      /\ row.amount * 10 = payment.amount
                      /\ row.status = payment.status]_vars

\* the paid players a budget response lists
PaidPlayerIds(response) == {x.player_id : x \in response.paid_players}

\* C10: delete_payment removes exactly the payment row of the given
\* (game_id, player_id) and no other row, and the budget read that follows no
\* longer lists the player as paid; when no such row exists it answers 404
\* 'Payment not found' and leaves event_payments unchanged.
C10_DeletePaymentRemovesThatRow ==
    [][/\ \A g \in GameIdInputs, p \in PlayerIdInputs :
             (last'.op = "delete_payment" /\ delete_payment(g, p)) =>
                 IF PaymentsOf(g, p) = {}
                 THEN /\ last'.response = Response(404, "Payment not found")
                      /\ event_payments' = event_payments
                 ELSE /\ last'.response.status = 200
                      /\ Cardinality(PaymentsOf(g, p)) = 1
                      /\ event_payments' = event_payments \ PaymentsOf(g, p)
       /\ \A g \in GameIdInputs :
             (/\ last.op = "delete_payment"
              /\ last.response.status = 200
              /\ last.input.game_id = g
              /\ BudgetRead(g)) =>
                 /\ last'.response.status = 200
                 /\ last.input.player_id \notin PaidPlayerIds(last'.response)]_vars

\* the payment of player 1 for game 1, stored from the start beside the one
\* for the last game, has been deleted, the other one is still stored, and the
\* budget of game 1 has been read since
C10_Witness ==
    /\ last.op = "get_game_budget"
    /\ last.input.game_id = 1
    /\ last.response.status = 200
    /\ 1 \notin PaidPlayerIds(last.response)
    /\ PaymentsOf(1, 1) = {}
    /\ PaymentsOf(NGames, 1) # {}

-----------------------------------------------------------------------------
(* Claims about the budget report (SpecPaySeq) *)

\* C12: a budget report of a game gives as actual_income the sum of the
\* amounts of the game's payments with status 'confirmed', as number_of_payers
\* their count and as paid_players exactly their players; payments that are
\* pending or refunded, and payments of other games, add nothing
C12_BudgetCountsConfirmedOnly ==
    (last.op = "get_game_budget" /\ last.input.game_id \in GameIds) =>
        LET g == last.input.game_id
            counted == {r \in event_payments : r.game_id = g /\ r.status = "confirmed"}
        IN  /\ last.response.status = 200
            /\ last.response.actual_income = SumAmounts(counted)
            /\ last.response.number_of_payers = Cardinality(counted)
            /\ Cardinality(last.response.paid_players) = Cardinality(counted)
            /\ PaidPlayerIds(last.response) = {r.player_id : r \in counted}
            /\ \A x \in last.response.paid_players :
                   \E r \in counted : r.id = x.payment_id /\ r.player_id = x.player_id

\* a report of game 1 read while the game's only payment is refunded and
\* another game has a confirmed one
C12_Witness ==
    /\ last.op = "get_game_budget" /\ last.input.game_id = 1
    /\ last.response.status = 200
    /\ \E r \in event_payments : r.game_id = 1 /\ r.status = "refunded"
    /\ \E r \in event_payments : r.game_id # 1 /\ r.status = "confirmed"
    /\ last.response.number_of_payers = 0
    /\ last.response.actual_income = 0

\* the users who voted option 0 ("I'm in!") in a game poll of game g
RegisteredVoters(g) ==
    {v.user_id : v \in {x \in poll_votes :
                           /\ x.option_id = 0
                           /\ \E q \in polls : /\ q.poll_id = x.poll_id
                                                /\ q.poll_type = "game"
                                                /\ q.game_id = g}}

\* the players with a confirmed payment for game g
Payers(g) ==
    {r.player_id : r \in {x \in event_payments : x.game_id = g /\ x.status = "confirmed"}}

UnpaidPlayerIds(response) == {x.player_id : x \in response.unpaid_players}

\* the first two parts of C13: unpaid_players is exactly the players who voted
\* option 0 in the game's poll and have no confirmed payment for the game, and
\* no player is in both lists
C13_UnpaidAreRegisteredNotPaid ==
    (last.op = "get_game_budget" /\ last.input.game_id \in GameIds) =>
        LET g == last.input.game_id
        IN  /\ last.response.status = 200
            /\ UnpaidPlayerIds(last.response) =
                   {p \in PlayerIds : /\ players[p].telegram_user_id \in RegisteredVoters(g)
                                      /\ p \notin Payers(g)}
            /\ PaidPlayerIds(last.response) \cap UnpaidPlayerIds(last.response) = {}

\* C13: unpaid_players is exactly the players who registered for the game
\* (voted option 0 in the game's poll) and have no confirmed payment for it,
\* paid_players and unpaid_players are disjoint, and every registered voter
\* counted in registered_players appears in one of the two lists
C13_RegisteredArePaidOrUnpaid ==
    /\ C13_UnpaidAreRegisteredNotPaid
    /\ (last.op = "get_game_budget" /\ last.input.game_id \in GameIds) =>
          LET g == last.input.game_id
          IN  /\ last.response.status = 200
              /\ last.response.registered_players = Cardinality(RegisteredVoters(g))
              /\ \A u \in RegisteredVoters(g) :
                     \E p \in PaidPlayerIds(last.response) \cup UnpaidPlayerIds(last.response) :
                        players[p].telegram_user_id = u

-----------------------------------------------------------------------------
(* The roster of the next game: GET /games/next/players, and the game-poll   *)
(* job that records the polls it reads                                       *)

\* the rows .order_by(GameSchedule.game_date).limit(1) may return among the
\* games with game_date > t: an earliest one; none when the set is empty
next_game(t) ==
    {g \in GameIds :
        /\ game_schedule[g].game_date > t
        /\ \A h \in GameIds : game_schedule[h].game_date > t =>
               game_schedule[g].game_date <= game_schedule[h].game_date}

\* the rows .order_by(Poll.created_at.desc()).limit(1) may return among the
\* game polls: a most recent one, whatever its game
latest_game_poll ==
    {q \in polls :
        /\ q.poll_type = "game"
        /\ \A r \in polls : r.poll_type = "game" => r.created_at <= q.created_at}

\* the lists .order_by(PollVote.voted_at).limit(limit) may return for poll q:
\* the first rows in an order of voted_at
first_votes(q, limit) ==
    LET rows == {v \in poll_votes : v.poll_id = q.poll_id}
        k == IF Cardinality(rows) < limit THEN Cardinality(rows) ELSE limit
    IN  {s \in [1..k -> rows] :
            /\ \A i, j \in 1..k : i < j =>
                   /\ s[i] # s[j]
                   /\ s[i].voted_at <= s[j].voted_at
            /\ \A r \in rows : (\A i \in 1..k : s[i] # r) =>
                   \A i \in 1..k : s[i].voted_at <= r.voted_at}

\* the loop over votes: the player of each vote whose user is in player_map
RECURSIVE ordered_players(_)
ordered_players(votes) ==
    IF votes = << >> THEN << >>
    ELSE LET user_id == Head(votes).user_id
             rest == ordered_players(Tail(votes))
         IN  IF \E p \in PlayerIds : players[p].telegram_user_id = user_id
             THEN <<CHOOSE p \in PlayerIds : players[p].telegram_user_id = user_id>> \o rest
             ELSE rest

\* NextGamePlayersResponse: the game's id (0 for None) and the players' ids
NextGamePlayersResponse(game, ps) ==
    [status |-> 200, game |-> game, players |-> ps, total_count |-> Len(ps)]

\* get_next_game_players(limit): the whole handler
get_next_game_players(limit) ==
    /\ IF limit < 1 \/ limit > 100
       THEN last' = Done("get_next_game_players", [limit |-> limit],
                         Response(422, "limit"))
       ELSE IF next_game(now) = {}
       THEN last' = Done("get_next_game_players", [limit |-> limit],
                         NextGamePlayersResponse(0, << >>))
       ELSE \E g \in next_game(now) :
              IF latest_game_poll = {}
              THEN last' = Done("get_next_game_players", [limit |-> limit],
                                NextGamePlayersResponse(g, << >>))
              ELSE \E q \in latest_game_poll : \E votes \in first_votes(q, limit) :
                     last' = Done("get_next_game_players", [limit |-> limit],
                                  NextGamePlayersResponse(g, ordered_players(votes)))
    /\ UNCHANGED <<now, game_schedule, players, polls, poll_votes, event_payments,
                   budget_cache, forecast_cache, next_id, req>>

\* run_game_poll_job: the next game within 7 days (0 for none), the poll
\* Telegram creates, and its row; poll ids are Telegram's, fresh each time
run_game_poll_job ==
    LET found == {g \in GameIds :
                    /\ game_schedule[g].game_date > now
                    /\ game_schedule[g].game_date <= now + Days(7)}
        first == {g \in found : \A h \in found :
                    game_schedule[g].game_date <= game_schedule[h].game_date}
    IN  /\ Cardinality(polls) < MaxId
        /\ \E game_id \in (IF found = {} THEN {0} ELSE first) :
              /\ polls' = polls \cup {[poll_id |-> 71 + Cardinality(polls),
                                       poll_type |-> "game", game_id |-> game_id,
                                       created_at |-> now]}
              /\ last' = Done("run_game_poll_job", [game_id |-> game_id],
                              [status |-> "success"])
        /\ UNCHANGED <<now, game_schedule, players, poll_votes, event_payments,
                       budget_cache, forecast_cache, next_id, req>>

-----------------------------------------------------------------------------
(* SpecNext: the game-poll job, poll answers and roster reads as days pass *)

\* game g is played on the g-th day from T0, at 19:00
NextSchedules(n) ==
    { [g \in 1..n |-> [game_date |-> T0 + Days(g - 1) + 19, location |-> "hall",
                       price_per_player |-> 2500, max_players |-> 0]] }

InitNext ==
    /\ now = T0
    /\ game_schedule \in NextSchedules(NGames)
    /\ players = PlayerTable
    /\ polls = {}
    /\ poll_votes = {}
    /\ event_payments = {}
    /\ budget_cache = {}
    /\ forecast_cache = {}
    /\ next_id = [t \in {"event_payments", "budget_cache", "forecast_cache", "poll_votes"} |-> 1]
    /\ req = [w \in Workers |-> Idle]
    /\ last = [op |-> "none"]

\* limit: below the query's minimum, and within it
LimitInputs == {0, 1, 2}

\* the polls the job can have recorded
NextPollIdInputs == {71 + i : i \in 0..(MaxId - 1)}

NextNext ==
    \/ Tick(24)
    \/ run_game_poll_job
    \/ \E q \in NextPollIdInputs, u \in UserIdInputs : on_poll_answer(q, u, <<0>>)
    \/ \E limit \in LimitInputs : get_next_game_players(limit)

SpecNext == InitNext /\ [][NextNext]_vars

-----------------------------------------------------------------------------
(* Claims about the roster of the next game (SpecNext) *)

\* the vote of player p in poll q, as a set of rows
VoteOfPlayer(q, p) ==
    {v \in poll_votes : v.poll_id = q.poll_id /\ v.user_id = players[p].telegram_user_id}

\* C14: get_next_game_players returns at most limit players, in ascending
\* order of the voted_at of their votes, and while the result holds fewer than
\* limit players no voter with an earlier vote time than a returned player is
\* left out
C14_FirstComeFirstServed ==
    (last.op = "get_next_game_players" /\ last.response.status = 200) =>
        LET ps == last.response.players
            limit == last.input.limit
        IN  /\ Len(ps) <= limit
            /\ ps # << >> =>
                 \E q \in {x \in polls : x.poll_type = "game"} :
                    /\ \A i \in 1..Len(ps) : VoteOfPlayer(q, ps[i]) # {}
                    /\ \A i, j \in 1..Len(ps) : i < j =>
                          \A a \in VoteOfPlayer(q, ps[i]), b \in VoteOfPlayer(q, ps[j]) :
                             a.voted_at <= b.voted_at
                    /\ Len(ps) < limit =>
                          \A v \in {x \in poll_votes : x.poll_id = q.poll_id} :
                             (\E i \in 1..Len(ps) : \E b \in VoteOfPlayer(q, ps[i]) :
                                 v.voted_at < b.voted_at)
                             => \E j \in 1..Len(ps) :
                                   players[ps[j]].telegram_user_id = v.user_id

\* C14 for the voters who have a row in players: the bound, the order, and no
\* such voter with an earlier vote time than a returned player left out
C14_AmongVotersWithPlayerRow ==
    (last.op = "get_next_game_players" /\ last.response.status = 200) =>
        LET ps == last.response.players
        IN  /\ Len(ps) <= last.input.limit
            /\ ps # << >> =>
                 \E q \in {x \in polls : x.poll_type = "game"} :
                    /\ \A i \in 1..Len(ps) : VoteOfPlayer(q, ps[i]) # {}
                    /\ \A i, j \in 1..Len(ps) : i < j =>
                          \A a \in VoteOfPlayer(q, ps[i]), b \in VoteOfPlayer(q, ps[j]) :
                             a.voted_at <= b.voted_at
                    /\ \A p \in PlayerIds : \A v \in VoteOfPlayer(q, p) :
                          (\E i \in 1..Len(ps) : \E b \in VoteOfPlayer(q, ps[i]) :
                              v.voted_at < b.voted_at)
                          => \E j \in 1..Len(ps) : ps[j] = p

\* C15: the players returned for the next game are voters of a game poll of
\* that game; votes cast on another game's poll do not appear
C15_VotersOfNextGamesPoll ==
    (last.op = "get_next_game_players" /\ last.response.status = 200) =>
        \A i \in 1..Len(last.response.players) :
           \E q \in polls, v \in poll_votes :
              /\ q.poll_type = "game"
              /\ q.game_id = last.response.game
              /\ v.poll_id = q.poll_id
              /\ v.user_id = players[last.response.players[i]].telegram_user_id

====
